---- MODULE Spec2Model ----
(***************************************************************************)
(* Model of ARMTest/trending_search_data_application.py: a fetch strategy  *)
(* (GoogleTrendsFetchingStrategy), two plot strategies (line, stacked      *)
(* area) and TrendingSearchDataApplication, which fetches a table and      *)
(* renders it.  Two specifications: Spec drives one Application through    *)
(* arbitrary calls of run(), plot() and attribute assignments; SpecMain is *)
(* the script under  if __name__ == "__main__".                            *)
(***************************************************************************)
EXTENDS Integers, Sequences, FiniteSets, TLC

VARIABLES
  app,          \* the TrendingSearchDataApplication: fetch_strategy, plot_strategy, data
  upstream,     \* what pytrends did in the latest fetch_data call
  events,       \* the strategy calls made by the latest operation (by the script so far, in SpecMain)
  exc,          \* the exception the latest operation raised to its caller, or "none"
  lastOp,       \* the latest operation
  fetch_calls,  \* how often fetch_data has been called
  fetched,      \* the value the latest fetch_data call returned
  succeeded,    \* whether some run() has returned normally
  pc            \* "caller" in Spec; the script's position in SpecMain

vars == <<app, upstream, events, exc, lastOp, fetch_calls, fetched, succeeded, pc>>

(* ------------------------------ bounds --------------------------------- *)
\* rows of an upstream response: dates 1 .. n, n <= MaxRows
MaxRows == 2
\* run() calls on one Application in Spec
MaxRuns == 2

\* relative search volumes a cell can hold
Volumes == {0, 100}

(* --------------------------- pandas values ----------------------------- *)
\* self.data = None
NoneValue == [type |-> "NoneType"]

\* a pandas DataFrame: row index, column labels, one cell per (row, column)
DataFrame(index, columns, values) ==
  [type |-> "DataFrame", index |-> index, columns |-> columns, values |-> values]

\* pd.DataFrame(): zero rows and zero columns
EmptyDataFrame == DataFrame({}, {}, [p \in {} |-> 0])

\* variant of empty: looks at the rows only
empty_rowsOnly(df) == df.index = {}

\* DataFrame.empty: true when any axis has length 0
empty(df) == df.index = {} \/ df.columns = {}

\* DataFrame.drop(columns=labels): a new frame without the labels; KeyError
\* when a label is not a column
drop(df, labels) ==
  IF labels \subseteq df.columns
  THEN [exc |-> "none",
        ret |-> DataFrame(df.index, df.columns \ labels,
                          [p \in df.index \X (df.columns \ labels) |-> df.values[p]])]
  ELSE [exc |-> "KeyError", ret |-> NoneValue]

(* --------------------------- fetch strategy ---------------------------- *)
Keywords == {"Football", "Rugby", "Tennis"}

\* GoogleTrendsFetchingStrategy(keywords, timeframe)
GoogleTrendsFetchingStrategy(keywords, timeframe) ==
  [search_data_type |-> "Google Trends", keywords |-> keywords, timeframe |-> timeframe]

\* the strategies an Application of Spec is given
FetchStrategies ==
  {GoogleTrendsFetchingStrategy(K, "today 3-m") : K \in {{}, {"Football", "Rugby"}}}

\* all frames with rows 1 .. n and a volume column per keyword
Frames(n, keywords) ==
  {DataFrame(1 .. n, keywords, f) : f \in [(1 .. n) \X keywords -> Volumes]}

\* the frame with a boolean isPartial column added
WithIsPartial(df, flags) ==
  DataFrame(df.index, df.columns \cup {"isPartial"},
            [p \in df.index \X (df.columns \cup {"isPartial"}) |->
               IF p[2] = "isPartial" THEN flags[p[1]] ELSE df.values[p]])

\* isPartial flags of n rows: only the latest period can be incomplete
PartialFlags(n) == {flags \in [1 .. n -> BOOLEAN] : \A i \in 1 .. n : flags[i] => i = n}

\* the frames interest_over_time() returns for a query: a column per keyword
\* plus isPartial
Responses(keywords) ==
  UNION {{WithIsPartial(df, flags) : df \in Frames(n, keywords), flags \in PartialFlags(n)} :
           n \in 0 .. MaxRows}

\* what the three pytrends calls of one fetch can do: one of them raises, or
\* interest_over_time() returns a frame: the keywords' columns plus isPartial,
\* or (no data for the query) its empty frame without isPartial
Upstream(keywords) ==
  {[raises |-> r, table |-> NoneValue] :
      r \in {"TrendReq", "build_payload", "interest_over_time"}}
  \cup {[raises |-> "none", table |-> t] :
          t \in Responses(keywords)}
  \cup {[raises |-> "none", table |-> EmptyDataFrame]}

NoCall == [raises |-> "nocall", table |-> NoneValue]

\* variant of fetch_data: the drop is outside the try block
fetch_data_dropOutsideTry(self, up) ==
  IF up.raises # "none"
  THEN [ret |-> EmptyDataFrame, exc |-> "none", logged |-> TRUE]
  ELSE LET d == drop(up.table, {"isPartial"})
       IN [ret |-> d.ret, exc |-> d.exc, logged |-> FALSE]

\* variant of fetch_data: interest_over_time()'s frame is returned as it is
fetch_data_keepsIsPartial(self, up) ==
  IF up.raises # "none"
  THEN [ret |-> EmptyDataFrame, exc |-> "none", logged |-> TRUE]
  ELSE IF "isPartial" \notin up.table.columns
  THEN [ret |-> EmptyDataFrame, exc |-> "none", logged |-> TRUE]
  ELSE [ret |-> up.table, exc |-> "none", logged |-> FALSE]

\* GoogleTrendsFetchingStrategy.fetch_data: the value returned, the exception
\* that escapes, and whether logging.error was called
fetch_data(self, up) ==
  IF up.raises # "none"
  THEN [ret |-> EmptyDataFrame, exc |-> "none", logged |-> TRUE]
  ELSE LET d == drop(up.table, {"isPartial"})
       IN IF d.exc # "none"
          THEN [ret |-> EmptyDataFrame, exc |-> "none", logged |-> TRUE]
          ELSE [ret |-> d.ret, exc |-> "none", logged |-> FALSE]

(* --------------------------- plot strategies --------------------------- *)
PlotStrategies == {"LineChartPlottingStrategy", "StackedAreaChartPlottingStrategy"}

RECURSIVE SumOver(_, _, _)
SumOver(data, i, cols) ==
  IF cols = {} THEN 0
  ELSE LET c == CHOOSE x \in cols : TRUE
       IN data.values[<<i, c>>] + SumOver(data, i, cols \ {c})

\* variant of the line chart: it pops each column off the frame as it draws it
LineChart_plot_data_popsColumns(data, search_data_type) ==
  [chart |-> [kind |-> "line",
              title |-> <<search_data_type, "Search Data Over Time">>,
              lines |-> [c \in data.columns |-> [i \in data.index |-> data.values[<<i, c>>]]],
              top |-> [i \in data.index |-> 0]],
   data |-> DataFrame(data.index, {}, [p \in {} |-> 0])]

\* LineChartPlottingStrategy.plot_data: one labelled line per column over the
\* index; the frame after the call is the frame passed
LineChart_plot_data(data, search_data_type) ==
  [chart |-> [kind |-> "line",
              title |-> <<search_data_type, "Search Data Over Time">>,
              lines |-> [c \in data.columns |-> [i \in data.index |-> data.values[<<i, c>>]]],
              top |-> [i \in data.index |-> 0]],
   data |-> data]

\* StackedAreaChartPlottingStrategy.plot_data: the columns stacked, so the top
\* of the stack at a row is the sum of the row
StackedArea_plot_data(data, search_data_type) ==
  [chart |-> [kind |-> "stackplot",
              title |-> <<search_data_type, "Search Data Over Time - Stacked Area Chart">>,
              lines |-> [c \in data.columns |-> [i \in data.index |-> data.values[<<i, c>>]]],
              top |-> [i \in data.index |-> SumOver(data, i, data.columns)]],
   data |-> data]

plot_data(strategy, data, search_data_type) ==
  IF strategy = "LineChartPlottingStrategy"
  THEN LineChart_plot_data(data, search_data_type)
  ELSE StackedArea_plot_data(data, search_data_type)

(* ------------------------------ events --------------------------------- *)
FetchEvent(strategy, r) ==
  [call |-> "fetch_data", strategy |-> strategy, data |-> r.ret, exc |-> r.exc,
   search_data_type |-> strategy.search_data_type, chart |-> NoneValue]

RenderEvent(strategy, data, search_data_type, chart) ==
  [call |-> "plot_data", strategy |-> strategy, data |-> data, exc |-> "none",
   search_data_type |-> search_data_type, chart |-> chart]

AssignEvent(strategy) ==
  [call |-> "plot_strategy=", strategy |-> strategy, data |-> NoneValue, exc |-> "none",
   search_data_type |-> "", chart |-> NoneValue]

(* ----------------------------- Application ----------------------------- *)
\* TrendingSearchDataApplication.__init__
TrendingSearchDataApplication(fetch_strategy, plot_strategy) ==
  [fetch_strategy |-> fetch_strategy, plot_strategy |-> plot_strategy, data |-> NoneValue]

\* variant of plot: returns without a word when there is nothing to draw
plot_silentOnEmpty(self) ==
  IF self.data = NoneValue
  THEN [app |-> self, exc |-> "AttributeError", events |-> <<>>]
  ELSE IF ~ empty(self.data)
  THEN LET r == plot_data(self.plot_strategy, self.data, self.fetch_strategy.search_data_type)
       IN [app |-> [self EXCEPT !.data = r.data], exc |-> "none",
           events |-> <<RenderEvent(self.plot_strategy, self.data,
                                    self.fetch_strategy.search_data_type, r.chart)>>]
  ELSE [app |-> self, exc |-> "none", events |-> <<>>]

\* TrendingSearchDataApplication.plot: the Application after the call, the
\* exception raised, and the calls made
plot(self) ==
  IF self.data = NoneValue
  THEN \* None has no attribute 'empty'
       [app |-> self, exc |-> "AttributeError", events |-> <<>>]
  ELSE IF ~ empty(self.data)
  THEN LET r == plot_data(self.plot_strategy, self.data, self.fetch_strategy.search_data_type)
       IN [app |-> [self EXCEPT !.data = r.data], exc |-> "none",
           events |-> <<RenderEvent(self.plot_strategy, self.data,
                                    self.fetch_strategy.search_data_type, r.chart)>>]
  ELSE [app |-> self, exc |-> "ValueError", events |-> <<>>]

\* variant of run: plots what is stored, then fetches
run_plotsBeforeFetch(self, up) ==
  LET p == plot(self)
      f == fetch_data(self.fetch_strategy, up)
  IN IF p.exc # "none"
     THEN [app |-> p.app, exc |-> p.exc, events |-> p.events]
     ELSE [app |-> [p.app EXCEPT !.data = IF f.exc = "none" THEN f.ret ELSE @],
           exc |-> f.exc, events |-> p.events \o <<FetchEvent(self.fetch_strategy, f)>>]

\* variant of run: an empty fetch result does not replace the stored table
run_keepsOldOnEmpty(self, up) ==
  LET f == fetch_data(self.fetch_strategy, up)
      e == <<FetchEvent(self.fetch_strategy, f)>>
  IN IF f.exc # "none"
     THEN [app |-> self, exc |-> f.exc, events |-> e]
     ELSE LET p == plot(IF empty(f.ret) THEN self ELSE [self EXCEPT !.data = f.ret])
          IN [app |-> p.app, exc |-> p.exc, events |-> e \o p.events]

\* TrendingSearchDataApplication.run
run(self, up) ==
  LET f == fetch_data(self.fetch_strategy, up)
      e == <<FetchEvent(self.fetch_strategy, f)>>
  IN IF f.exc # "none"
     THEN [app |-> self, exc |-> f.exc, events |-> e]
     ELSE LET p == plot([self EXCEPT !.data = f.ret])
          IN [app |-> p.app, exc |-> p.exc, events |-> e \o p.events]

NumCalls(es, call) == Cardinality({i \in 1 .. Len(es) : es[i].call = call})

\* the value returned by the last fetch_data call among es, or old when there is none
LastFetched(es, old) ==
  LET is == {i \in 1 .. Len(es) : es[i].call = "fetch_data" /\ es[i].exc = "none"}
  IN IF is = {} THEN old ELSE es[CHOOSE i \in is : \A j \in is : j <= i].data

(* ------------------- Spec: one Application, any caller ----------------- *)
Init ==
  /\ app \in {TrendingSearchDataApplication(f, p) : f \in FetchStrategies, p \in PlotStrategies}
  /\ upstream = NoCall
  /\ events = <<>>
  /\ exc = "none"
  /\ lastOp = "__init__"
  /\ fetch_calls = 0
  /\ fetched = NoneValue
  /\ succeeded = FALSE
  /\ pc = "caller"

\* app.run()
Run ==
  /\ pc = "caller"
  /\ fetch_calls < MaxRuns
  /\ \E up \in Upstream(app.fetch_strategy.keywords) :
       LET r == run(app, up)
       IN /\ app' = r.app
          /\ upstream' = up
          /\ events' = r.events
          /\ exc' = r.exc
          /\ fetch_calls' = fetch_calls + NumCalls(r.events, "fetch_data")
          /\ fetched' = LastFetched(r.events, fetched)
          /\ succeeded' = (succeeded \/ r.exc = "none")
  /\ lastOp' = "run"
  /\ pc' = pc

\* variant of Plot: plot() fetches again before it draws
Plot_refetching ==
  /\ pc = "caller"
  /\ fetch_calls < MaxRuns
  /\ \E up \in Upstream(app.fetch_strategy.keywords) :
       LET r == run(app, up)
       IN /\ app' = r.app
          /\ events' = r.events
          /\ exc' = r.exc
          /\ fetch_calls' = fetch_calls + NumCalls(r.events, "fetch_data")
          /\ fetched' = LastFetched(r.events, fetched)
  /\ lastOp' = "plot"
  /\ UNCHANGED <<upstream, succeeded, pc>>

\* app.plot()
Plot ==
  /\ pc = "caller"
  /\ LET r == plot(app)
     IN /\ app' = r.app
        /\ events' = r.events
        /\ exc' = r.exc
        /\ fetch_calls' = fetch_calls + NumCalls(r.events, "fetch_data")
        /\ fetched' = LastFetched(r.events, fetched)
  /\ lastOp' = "plot"
  /\ UNCHANGED <<upstream, succeeded, pc>>

\* app.plot_strategy = <strategy>
SetPlotStrategy ==
  /\ pc = "caller"
  /\ \E s \in PlotStrategies : app' = [app EXCEPT !.plot_strategy = s]
  /\ events' = <<AssignEvent(app'.plot_strategy)>>
  /\ exc' = "none"
  /\ lastOp' = "plot_strategy="
  /\ UNCHANGED <<upstream, fetch_calls, fetched, succeeded, pc>>

\* app.fetch_strategy = <strategy>
SetFetchStrategy ==
  /\ pc = "caller"
  /\ \E s \in FetchStrategies : app' = [app EXCEPT !.fetch_strategy = s]
  /\ events' = <<>>
  /\ exc' = "none"
  /\ lastOp' = "fetch_strategy="
  /\ UNCHANGED <<upstream, fetch_calls, fetched, succeeded, pc>>

Next == Run \/ Plot \/ SetPlotStrategy \/ SetFetchStrategy

Spec == Init /\ [][Next]_vars

(* -------------------- SpecMain: the script's main ---------------------- *)
\* lines 94-97: the state when app.run() is about to be called
InitMain ==
  /\ app = TrendingSearchDataApplication(
             GoogleTrendsFetchingStrategy(Keywords, "today 3-m"), "LineChartPlottingStrategy")
  /\ upstream = NoCall
  /\ events = <<>>
  /\ exc = "none"
  /\ lastOp = "__init__"
  /\ fetch_calls = 0
  /\ fetched = NoneValue
  /\ succeeded = FALSE
  /\ pc = "line98"

\* line 98: app.run(); an exception ends the process with a traceback
MainRun ==
  /\ pc = "line98"
  /\ \E up \in Upstream(app.fetch_strategy.keywords) :
       LET r == run(app, up)
       IN /\ app' = r.app
          /\ upstream' = up
          /\ events' = events \o r.events
          /\ exc' = r.exc
          /\ fetch_calls' = fetch_calls + NumCalls(r.events, "fetch_data")
          /\ fetched' = LastFetched(r.events, fetched)
          /\ succeeded' = (succeeded \/ r.exc = "none")
          /\ pc' = IF r.exc = "none" THEN "line100" ELSE "traceback"
  /\ lastOp' = "run"

\* line 100: app.plot_strategy = StackedAreaChartPlottingStrategy()
MainSwap ==
  /\ pc = "line100"
  /\ app' = [app EXCEPT !.plot_strategy = "StackedAreaChartPlottingStrategy"]
  /\ events' = events \o <<AssignEvent(app'.plot_strategy)>>
  /\ lastOp' = "plot_strategy="
  /\ pc' = "line101"
  /\ UNCHANGED <<upstream, exc, fetch_calls, fetched, succeeded>>

\* variant of MainPlot: line 101 calls app.run()
MainPlot_rerun ==
  /\ pc = "line101"
  /\ \E up \in Upstream(app.fetch_strategy.keywords) :
       LET r == run(app, up)
       IN /\ app' = r.app
          /\ events' = events \o r.events
          /\ exc' = r.exc
          /\ fetch_calls' = fetch_calls + NumCalls(r.events, "fetch_data")
          /\ fetched' = LastFetched(r.events, fetched)
          /\ pc' = IF r.exc = "none" THEN "exit" ELSE "traceback"
  /\ lastOp' = "plot"
  /\ UNCHANGED <<upstream, succeeded>>

\* line 101: app.plot()
MainPlot ==
  /\ pc = "line101"
  /\ LET r == plot(app)
     IN /\ app' = r.app
        /\ events' = events \o r.events
        /\ exc' = r.exc
        /\ fetch_calls' = fetch_calls + NumCalls(r.events, "fetch_data")
        /\ fetched' = LastFetched(r.events, fetched)
        /\ pc' = IF r.exc = "none" THEN "exit" ELSE "traceback"
  /\ lastOp' = "plot"
  /\ UNCHANGED <<upstream, succeeded>>

NextMain == MainRun \/ MainSwap \/ MainPlot

SpecMain == InitMain /\ [][NextMain]_vars

(* ------------------------------ properties ----------------------------- *)
\* the latest fetch failed upstream: a pytrends call raised, or the frame
\* has no isPartial column to drop
UpstreamFailed ==
  \/ upstream.raises \in {"TrendReq", "build_payload", "interest_over_time"}
  \/ upstream.raises = "none" /\ "isPartial" \notin upstream.table.columns

\* the latest operation raised the "No data available" ValueError and drew nothing
UsageError == exc = "ValueError" /\ events = <<>>

\* the latest operation made exactly one call: the current plot strategy's
\* plot_data on the stored table under the fetch strategy's label
RendersOnce ==
  /\ exc = "none"
  /\ Len(events) = 1
  /\ events[1].call = "plot_data"
  /\ events[1].strategy = app.plot_strategy
  /\ events[1].data = app.data
  /\ events[1].search_data_type = app.fetch_strategy.search_data_type
  /\ events[1].chart.kind =
       (IF app.plot_strategy = "LineChartPlottingStrategy" THEN "line" ELSE "stackplot")

\* C1: whichever way the upstream query fails (TrendReq(), build_payload,
\* interest_over_time, or the drop of isPartial), fetch_data returns a frame
\* with zero rows and zero columns and raises nothing.
C1_FetchFailureYieldsEmptyFrame ==
  (lastOp = "run" /\ UpstreamFailed) =>
     /\ Len(events) >= 1
     /\ events[1].call = "fetch_data"
     /\ events[1].exc = "none"
     /\ events[1].data # NoneValue
     /\ events[1].data.index = {}
     /\ events[1].data.columns = {}

C1_Witness ==
  /\ lastOp = "run"
  /\ upstream.raises = "none"
  /\ "isPartial" \notin upstream.table.columns
  /\ fetched = EmptyDataFrame

\* C2: when the upstream frame T has isPartial plus one column per keyword,
\* fetch_data returns a frame whose columns are exactly the keywords, without
\* isPartial, with T's rows and T's cells under the keywords.
C2_FetchedColumnsAreKeywords ==
  (/\ lastOp = "run"
   /\ upstream.raises = "none"
   /\ upstream.table.columns = app.fetch_strategy.keywords \cup {"isPartial"}) =>
     /\ Len(events) >= 1
     /\ events[1].call = "fetch_data"
     /\ events[1].exc = "none"
     /\ events[1].data # NoneValue
     /\ events[1].data.columns = app.fetch_strategy.keywords
     /\ "isPartial" \notin events[1].data.columns
     /\ events[1].data.index = upstream.table.index
     /\ \A p \in upstream.table.index \X app.fetch_strategy.keywords :
          events[1].data.values[p] = upstream.table.values[p]

C2_Witness ==
  /\ lastOp = "run"
  /\ upstream.raises = "none"
  /\ upstream.table.columns = {"Football", "Rugby", "isPartial"}
  /\ upstream.table.index = {1, 2}
  /\ upstream.table.values[<<2, "isPartial">>]
  /\ fetched.columns = {"Football", "Rugby"}
  /\ fetched.values[<<1, "Football">>] = 100
  /\ fetched.values[<<2, "Rugby">>] = 0

\* C3: plot() with no table stored (no run() yet) or with a stored table of
\* zero rows raises the "No data available" ValueError and calls no plot_data.
C3_PlotWithoutDataIsUsageError ==
  (lastOp = "plot" /\ (app.data = NoneValue \/ app.data.index = {})) =>
     exc = "ValueError" /\ NumCalls(events, "plot_data") = 0

\* C4: once a run() has succeeded (a table with data is stored), assigning a
\* plot strategy and calling plot() call no fetch_data and leave the stored
\* table the one run() fetched; each such plot() draws that table with the
\* strategy current at the call.
C4_ReplotDoesNotRefetch ==
  [][(/\ lastOp' \in {"plot", "plot_strategy="}
      /\ app.data # NoneValue
      /\ ~ (app.data.index = {} \/ app.data.columns = {})
      /\ app.data = fetched)
     => /\ fetch_calls' = fetch_calls
        /\ fetched' = fetched
        /\ app'.data = fetched
        /\ (lastOp' = "plot" =>
              /\ exc' = "none"
              /\ Len(events') = 1
              /\ events'[1].call = "plot_data"
              /\ events'[1].strategy = app.plot_strategy
              /\ events'[1].data = fetched)]_vars

C4_Witness ==
  /\ lastOp = "plot"
  /\ exc = "none"
  /\ succeeded
  /\ fetch_calls = 1
  /\ app.plot_strategy = "StackedAreaChartPlottingStrategy"
  /\ Len(events) = 1
  /\ events[1].call = "plot_data"
  /\ events[1].chart.kind = "stackplot"
  /\ events[1].data = fetched

\* C5: a run(), from Empty or from Ready, calls the current fetch strategy's
\* fetch_data exactly once and first, stores what it returned, and calls
\* plot_data only after that, on the frame fetch_data returned.
C5_RunFetchesThenPlots ==
  lastOp = "run" =>
     /\ Len(events) \in {1, 2}
     /\ events[1].call = "fetch_data"
     /\ events[1].strategy = app.fetch_strategy
     /\ NumCalls(events, "fetch_data") = 1
     /\ app.data # NoneValue
     /\ app.data = events[1].data
     /\ \A i \in 1 .. Len(events) :
          events[i].call = "plot_data" =>
             /\ i > 1
             /\ events[i].data = events[1].data
             /\ events[i].strategy = app.plot_strategy

C5_Witness ==
  /\ lastOp = "run"
  /\ fetch_calls = 2
  /\ Len(events) = 2
  /\ events[2].call = "plot_data"
  /\ exc = "none"

\* C6: plot(), whether it draws or raises, leaves the Application's table,
\* fetch strategy and plot strategy as they were, and after a plot_data call
\* of either plot strategy the stored table is still the frame it was given.
C6_PlotLeavesApplicationUnchanged ==
  [][/\ (lastOp' = "plot" => app' = app)
     /\ \A i \in 1 .. Len(events') :
          events'[i].call = "plot_data" => app'.data = events'[i].data]_vars

C6_Witness ==
  /\ lastOp = "plot"
  /\ exc = "none"
  /\ app.plot_strategy = "LineChartPlottingStrategy"
  /\ Len(events) = 1
  /\ events[1].call = "plot_data"
  /\ app.data = fetched
  /\ app.data.index = {1, 2}

MainSequence ==
  /\ fetch_calls = 1
  /\ Len(events) = 4
  /\ events[1].call = "fetch_data"
  /\ events[2].call = "plot_data"
  /\ events[2].strategy = "LineChartPlottingStrategy"
  /\ events[2].chart.kind = "line"
  /\ events[2].data = events[1].data
  /\ events[3] = AssignEvent("StackedAreaChartPlottingStrategy")
  /\ events[4].call = "plot_data"
  /\ events[4].strategy = "StackedAreaChartPlottingStrategy"
  /\ events[4].chart.kind = "stackplot"
  /\ events[4].data = events[1].data

\* C8 as claimed: when the script ends it has made, in order, one fetch, one
\* line chart, the swap to stacked area and one stacked area chart of the
\* same frame.
C8_MainFetchesOnceDrawsTwice ==
  pc \in {"exit", "traceback"} => MainSequence

\* C8 as amended: when the fetch returns a frame with data the script makes,
\* in order, one fetch, one line chart, the swap and one stacked area chart of
\* the same frame; when the fetch returns an empty frame the script makes the
\* one fetch and ends in run()'s ValueError, without a chart or a swap.
C8_MainSequenceWhenDataFetched ==
  pc \in {"exit", "traceback"} =>
     /\ Len(events) >= 1
     /\ events[1].call = "fetch_data"
     /\ events[1].data # NoneValue
     /\ IF events[1].data.index = {} \/ events[1].data.columns = {}
        THEN pc = "traceback" /\ exc = "ValueError" /\ Len(events) = 1 /\ fetch_calls = 1
        ELSE pc = "exit" /\ exc = "none" /\ MainSequence

C8_Witness ==
  /\ pc = "exit"
  /\ MainSequence
  /\ events[1].data.columns = Keywords
  /\ events[1].data.index = {1, 2}

\* C9: after a run(), returned or raised, the stored table is exactly what
\* that run's fetch_data returned; the table is None exactly until the first
\* run() and from then on is the latest fetch result.
C9_TableReplacedByEachFetch ==
  /\ (app.data = NoneValue) <=> (fetch_calls = 0)
  /\ fetch_calls > 0 => app.data = fetched
  /\ lastOp = "run" =>
        Len(events) >= 1 /\ events[1].call = "fetch_data" /\ app.data = events[1].data

C9_Witness ==
  /\ lastOp = "run"
  /\ fetch_calls = 2
  /\ succeeded
  /\ exc = "ValueError"
  /\ UpstreamFailed
  /\ app.data = EmptyDataFrame

\* C10: a run() whose fetch gave the empty frame raises the ValueError and
\* draws nothing, also after an earlier run() that succeeded; the empty frame
\* is then what is stored, and plot() raises the ValueError for as long as it is.
C10_DegradedRunRaises ==
  /\ (lastOp = "run" /\ UpstreamFailed) =>
        /\ exc = "ValueError"
        /\ NumCalls(events, "plot_data") = 0
        /\ app.data = EmptyDataFrame
  /\ (lastOp = "plot" /\ fetched = EmptyDataFrame) =>
        UsageError /\ app.data = EmptyDataFrame

C10_Witness ==
  /\ lastOp = "plot"
  /\ succeeded
  /\ UpstreamFailed
  /\ fetched = EmptyDataFrame
  /\ UsageError

====
